---- MODULE Spec2Model ----
(***************************************************************************)
(* Model of the asset loading pipeline (AssetManager) and of the           *)
(* benchmarking harness (PerformanceBenchmark) of cyber-city-builder,      *)
(* and of the harness's calculateAverages, of its two reports and of the   *)
(* loader's choice of a decoder, each taken as a function.                 *)
(*                                                                         *)
(* JavaScript is single threaded: every action below is one task of the    *)
(* event loop (an API call up to its first suspension, or one callback     *)
(* together with the promise continuations it releases).                   *)
(***************************************************************************)
EXTENDS Integers, Sequences, FiniteSets, TLC

VARIABLES loader, bench, calc

vars == <<loader, bench, calc>>

(***************************************************************************)
(* Bounds of the model.                                                    *)
(***************************************************************************)
MaxReqs == 3        \* load calls (direct or issued by a batch) per behaviour
MaxBatches == 2     \* preloadAssets calls per behaviour
MaxListeners == 2   \* registrations in loadingListeners at a time

(***************************************************************************)
(* Paths.  A path is the list of its '.'-separated segments, i.e. the      *)
(* value of path.split('.').                                               *)
(***************************************************************************)
PathGlb == <<"a", "glb">>
PathObj == <<"b", "obj">>
PathPng == <<"t", "png">>

Paths == {PathGlb, PathObj, PathPng}

\* the paths loadModel and loadTexture are called with directly
DirectModelPaths == {PathGlb}
DirectTexturePaths == {PathPng}

\* the argument lists preloadAssets is called with
BatchInputs ==
  { <<PathGlb>>, <<PathGlb, PathGlb>>, <<PathGlb, PathPng>>,
    <<PathGlb, PathObj, PathPng>> }

Range(s) == {s[i] : i \in 1..Len(s)}

\* an extension that is compared as it is written
MutToLowerCase(s) == s

\* String.prototype.toLowerCase on the extensions that occur
ToLowerCase(s) ==
  CASE s = "GLB" -> "glb"
    [] s = "GLTF" -> "gltf"
    [] s = "OBJ" -> "obj"
    [] s = "Obj" -> "obj"
    [] s = "PNG" -> "png"
    [] s = "Png" -> "png"
    [] s = "JPG" -> "jpg"
    [] s = "JPEG" -> "jpeg"
    [] s = "HDR" -> "hdr"
    [] OTHER -> s

\* path.split('.').pop()?.toLowerCase()
FileExtension(path) == ToLowerCase(path[Len(path)])

TextureExtensions ==
  {"jpg", "jpeg", "png", "webp", "bmp", "tga", "tif", "tiff", "exr", "hdr"}

IsTexturePath(path) == FileExtension(path) \in TextureExtensions

\* the loader the map callback of preloadAssets hands a path to
PreloadTarget(path) ==
  IF IsTexturePath(path) THEN "loadTexture" ELSE "loadModel"

\* the decoder loadModel uses for a path that is not cached:
\* `fileExtension === 'obj'` selects loadObjModel, anything else loadGltfModel
ModelDecoder(path) ==
  IF FileExtension(path) = "obj" THEN "obj" ELSE "gltf"

\* modelPath.replace('.obj', '.mtl'): the first segment after the base that
\* is exactly "obj" is replaced
RECURSIVE ReplaceObj(_, _)
ReplaceObj(path, i) ==
  IF i > Len(path) THEN path
  ELSE IF path[i] = "obj" THEN [path EXCEPT ![i] = "mtl"]
  ELSE ReplaceObj(path, i + 1)

MtlPath(path) == ReplaceObj(path, 2)

(***************************************************************************)
(* The choice of a loader and of a decoder on its own.  Here the record    *)
(* `calc` holds a path, whether preloadAssets mapped it (preloaded) with   *)
(* the loader it was handed to (target), and whether loadModel was called  *)
(* with it on an empty cache (loaded) with the decoder it used (decoder).  *)
(***************************************************************************)
\* the spellings of extensions the paths are made of
DispatchExtensions ==
  TextureExtensions \cup
  {"PNG", "Png", "JPG", "JPEG", "HDR", "glb", "gltf", "GLB", "GLTF",
   "obj", "OBJ", "Obj", "mtl", "fbx"}

\* paths with one extension, and with two of which the last one counts
DispatchPaths ==
  {<<"a", e>> : e \in DispatchExtensions}
  \cup {<<"a", e1, e2>> : e1, e2 \in {"png", "PNG", "obj", "OBJ", "glb"}}

DispatchInit(path) ==
  [path |-> path, preloaded |-> FALSE, target |-> "none",
   loaded |-> FALSE, decoder |-> "none"]

\* the map callback of preloadAssets applied to the path
DispatchPreload ==
  /\ ~calc.preloaded
  /\ calc' = [calc EXCEPT !.preloaded = TRUE,
                          !.target = PreloadTarget(calc.path)]
  /\ UNCHANGED <<loader, bench>>

\* loadModel(path) on an empty cache
DispatchLoadModel ==
  /\ ~calc.loaded
  /\ calc' = [calc EXCEPT !.loaded = TRUE,
                          !.decoder = ModelDecoder(calc.path)]
  /\ UNCHANGED <<loader, bench>>

(***************************************************************************)
(* AssetManager.  The record `loader` holds the fields of the object       *)
(* (modelCache, textureCache, totalAssets, loadedAssets, pendingLoads),    *)
(* the promises of the calls made so far (reqs, batches), the event last   *)
(* handed to notifyProgress (lastEvent), the listeners (loadingListeners,  *)
(* with reaction[l], what the function l does to the listener list when    *)
(* it is called, and delivered[l], the calls of listener l made by the     *)
(* last notifyProgress), and three history fields:                         *)
(*   decodes[p]     decodes started for p (a decode-counting stub)         *)
(*   increments[p]  increments of loadedAssets made for p since the        *)
(*                  counters were last reset                               *)
(*   cleared        the paths that were cached, with a further request for *)
(*                  them under way, when clearCache was last called, and   *)
(*                  that were not asked for since                          *)
(* The values of the two caches are kept in `cached` (the object stored    *)
(* for a path), the value a promise resolved with in the field obj of its  *)
(* request.  A batch counts in completes[p] the events with isComplete     *)
(* emitted for its path p while its promise was pending.                   *)
(***************************************************************************)
\* Objects are named by the place that allocated them and the request that
\* was being served: each request runs each allocation site at most once.
\* Of the content of an object two things are kept: passes, the number of
\* times it was centred and its meshes made shadow casters and receivers,
\* and bare, whether some mesh of it has no material.
NoObject == [site |-> "none", req |-> 0, passes |-> 0, bare |-> FALSE]

\* the object a decoder hands to the success callback of request r
\* (gltf.scene, the OBJ group, the texture)
Decoded(r) == [site |-> "decoded", req |-> r, passes |-> 0, bare |-> FALSE]

\* a clone() that hands back the object it was called on
MutClone(object, r) == object

\* object.clone() evaluated while request r is served: a new object with
\* the content of the old one
Clone(object, r) == [object EXCEPT !.site = "clone", !.req = r]

\* a success callback that stores the model as the decoder delivered it
MutNormalize(object) == object

\* the success callback of a model decode before it stores the model:
\* position.set(-center.x, 0, -center.z), then castShadow and
\* receiveShadow of every mesh
Normalize(object) == [object EXCEPT !.passes = @ + 1]

\* `!hasMtl &&` in the traverse of loadObjModel
GetsDefaultMaterial(hasMtl) == ~hasMtl

\* the traverse of loadObjModel: a mesh without material gets the default
\* material when hasMtl is false
ApplyDefaultMaterial(object, hasMtl) ==
  IF GetsDefaultMaterial(hasMtl) THEN [object EXCEPT !.bare = FALSE]
  ELSE object

NoObjects == [p \in Paths |-> NoObject]

NoIncrements == [p \in Paths |-> 0]

\* the functions registered as listeners
Listeners == {"l1", "l2"}

\* what a listener function does to the listener list when it is called:
\* nothing (as handleAssetProgress, which only defers its hide() with
\* setTimeout), addLoadingListener(l) or removeLoadingListener(l)
Reactions ==
  {<<"none">>} \cup {<<op, l>> : op \in {"add", "remove"}, l \in Listeners}

NoReactions == [l \in Listeners |-> <<"none">>]

NoEvent ==
  [asset |-> <<>>, progress |-> 0, loaded |-> 0, total |-> 0,
   isComplete |-> FALSE]

LoaderInit ==
  [ modelCache   |-> {},
    textureCache |-> {},
    cached       |-> NoObjects,
    totalAssets  |-> 0,
    loadedAssets |-> 0,
    pendingLoads |-> <<>>,
    reqs         |-> <<>>,
    batches      |-> <<>>,
    lastEvent    |-> NoEvent,
    decodes      |-> [p \in Paths |-> 0],
    increments   |-> NoIncrements,
    loadingListeners |-> <<>>,
    delivered    |-> [l \in Listeners |-> 0],
    reaction     |-> NoReactions,
    cleared      |-> {} ]

\* a notifyProgress that calls every distinct listener once
MutCalls(listeners, l) == IF l \in Range(listeners) THEN 1 ELSE 0

\* the calls `listener(progress)` the forEach of notifyProgress makes of l
Calls(listeners, l) ==
  Cardinality({i \in 1..Len(listeners) : listeners[i] = l})

\* the call of a listener during a pass.  P holds the array that forEach
\* iterates (array), this.loadingListeners (list), whether the two are still
\* the same array object (same) and the listeners called so far (visited):
\* push appends to the array in place, filter assigns a new array; a
\* listener adds only while fewer than MaxListeners are registered
React(P, reaction) ==
  IF reaction[1] = "add" /\ Len(P.list) < MaxListeners
  THEN [P EXCEPT !.list = Append(@, reaction[2]),
                 !.array = IF P.same THEN Append(@, reaction[2]) ELSE @]
  ELSE IF reaction[1] = "remove"
  THEN [P EXCEPT !.list = SelectSeq(@, LAMBDA x : x # reaction[2]),
                 !.same = FALSE]
  ELSE P

\* a loop that reads the length of the array before every call (for...of)
MutPassLength(len, array) == Len(array)

\* Array.prototype.forEach reads the length once, before the first call:
\* elements appended during the pass are not visited
PassLength(len, array) == len

\* this.loadingListeners.forEach(listener => listener(progress)) from index
\* k on
RECURSIVE ForEach(_, _, _, _)
ForEach(P, k, len, reaction) ==
  IF k > PassLength(len, P.array) THEN P
  ELSE LET l == P.array[k]
       IN ForEach(React([P EXCEPT !.visited = Append(@, l)], reaction[l]),
                  k + 1, len, reaction)

\* notifyProgress
NotifyProgress(L, ev) ==
  LET P == ForEach([array |-> L.loadingListeners, list |-> L.loadingListeners,
                    same |-> TRUE, visited |-> <<>>],
                   1, Len(L.loadingListeners), L.reaction)
  IN [L EXCEPT !.lastEvent = ev,
               !.delivered = [l \in Listeners |-> Calls(P.visited, l)],
               !.loadingListeners = P.list]

\* this.pendingLoads.get(path), undefined read as false
PendingGet(L, path) ==
  IF path \in DOMAIN L.pendingLoads THEN L.pendingLoads[path] ELSE FALSE

\* this.pendingLoads.set(path, v)
PendingSet(L, path, v) ==
  [L EXCEPT !.pendingLoads =
     [p \in (DOMAIN L.pendingLoads) \cup {path} |->
        IF p = path THEN v ELSE L.pendingLoads[p]]]

\* a completion block that counts without looking at pendingLoads
MutCountsCompletion(L, path, isPreload) == isPreload

\* the guard of every completion block: isPreload && !pendingLoads.get(path)
CountsCompletion(L, path, isPreload) == isPreload /\ ~PendingGet(L, path)

\* a completion block that, in the failure form, records the path in the
\* model cache (a failure that is cached)
MutMarkComplete(L, path, isPreload, ok) ==
  LET L0 == IF ok THEN L ELSE [L EXCEPT !.modelCache = @ \cup {path}]
  IN IF CountsCompletion(L0, path, isPreload)
     THEN LET L1 == [PendingSet(L0, path, TRUE) EXCEPT
                       !.loadedAssets = @ + 1,
                       !.increments[path] = @ + 1]
          IN NotifyProgress(L1,
               [asset |-> path, progress |-> 100,
                loaded |-> IF ok THEN L1.loadedAssets ELSE 0,
                total |-> IF ok THEN L1.totalAssets ELSE 0,
                isComplete |-> TRUE])
     ELSE L0

\* the completion block: loadedAssets++, pendingLoads.set(path, true) and
\* the terminal event; ok tells the success/cache-hit form (loaded, total =
\* the counters) from the failure form (loaded, total = 0)
MarkComplete(L, path, isPreload, ok) ==
  IF CountsCompletion(L, path, isPreload)
  THEN LET L1 == [PendingSet(L, path, TRUE) EXCEPT
                    !.loadedAssets = @ + 1,
                    !.increments[path] = @ + 1,
                    !.batches = [b \in DOMAIN @ |->
                       IF @[b].st = "pending" /\ path \in Range(@[b].paths)
                       THEN [@[b] EXCEPT !.completes[path] = @ + 1]
                       ELSE @[b]]]
       IN NotifyProgress(L1,
            [asset |-> path, progress |-> 100,
             loaded |-> IF ok THEN L1.loadedAssets ELSE 0,
             total |-> IF ok THEN L1.totalAssets ELSE 0,
             isComplete |-> TRUE])
  ELSE L

\* a call of loadModel/loadTexture and the promise it returned: st and result
\* are the promise's state and value, outcome the terminal state the path
\* reached for this call ("hit", "success", "failure"); hasMtl is the
\* variable of loadObjModel, mtlFailed tells that the MTL decode failed
NewReq(path, kind, isPreload, batch, st, result) ==
  [path |-> path, kind |-> kind, isPreload |-> isPreload, batch |-> batch,
   st |-> st, result |-> result, obj |-> NoObject, hasMtl |-> FALSE,
   mtlFailed |-> FALSE,
   outcome |-> IF st = "resolved" THEN "hit" ELSE "none"]

AddReq(L, r) ==
  [L EXCEPT !.reqs = Append(@, r), !.cleared = @ \ {r.path}]

StartDecode(L, path) == [L EXCEPT !.decodes[path] = @ + 1]

\* loadObjModel up to its first suspension
LoadObjModel(L, path, isPreload, batch) ==
  IF MtlPath(path) # path
  THEN AddReq(L, NewReq(path, "model", isPreload, batch, "probing", "none"))
  ELSE AddReq(StartDecode(L, path),
              NewReq(path, "model", isPreload, batch, "decoding", "none"))

\* loadGltfModel: loader.load is called at once
LoadGltfModel(L, path, isPreload, batch) ==
  AddReq(StartDecode(L, path),
         NewReq(path, "model", isPreload, batch, "decoding", "none"))

\* a loadModel that never looks into the cache
MutLoadModel(L, path, isPreload, batch) ==
  IF ModelDecoder(path) = "obj"
  THEN LoadObjModel(L, path, isPreload, batch)
  ELSE LoadGltfModel(L, path, isPreload, batch)

\* loadModel up to its first suspension; a hit returns cachedModel.clone()
LoadModel(L, path, isPreload, batch) ==
  IF path \in L.modelCache
  THEN AddReq(MarkComplete(L, path, isPreload, TRUE),
              [NewReq(path, "model", isPreload, batch, "resolved", "asset")
                 EXCEPT !.obj = Clone(L.cached[path], Len(L.reqs) + 1)])
  ELSE IF ModelDecoder(path) = "obj"
  THEN LoadObjModel(L, path, isPreload, batch)
  ELSE LoadGltfModel(L, path, isPreload, batch)

\* loadTexture up to its first suspension; a hit returns the cached texture
LoadTexture(L, path, isPreload, batch) ==
  IF path \in L.textureCache
  THEN AddReq(MarkComplete(L, path, isPreload, TRUE),
              [NewReq(path, "texture", isPreload, batch, "resolved", "asset")
                 EXCEPT !.obj = L.cached[path]])
  ELSE AddReq(StartDecode(L, path),
              NewReq(path, "texture", isPreload, batch, "decoding", "none"))

\* the map callback of preloadAssets, applied to the paths in order
RECURSIVE IssueLoads(_, _, _, _)
IssueLoads(L, paths, i, batch) ==
  IF i > Len(paths) THEN L
  ELSE IssueLoads(
         IF PreloadTarget(paths[i]) = "loadTexture"
         THEN LoadTexture(L, paths[i], TRUE, batch)
         ELSE LoadModel(L, paths[i], TRUE, batch),
         paths, i + 1, batch)

\* the start of preloadAssets: counters reset, every path marked pending
ResetBatch(L, paths) ==
  [L EXCEPT !.totalAssets = Len(paths),
            !.loadedAssets = 0,
            !.pendingLoads = [p \in Range(paths) |-> FALSE],
            !.increments = NoIncrements,
            !.batches = [b \in DOMAIN @ |-> [@[b] EXCEPT !.current = FALSE]]]

\* an error callback that rejects the promise
MutErrorCallbackSettles == "rejected"

\* the promise a decoder's error callback settles: resolve(null)
ErrorCallbackSettles == "resolved"

\* getOverallProgress, the quotient kept as a fraction
GetOverallProgress(L) ==
  IF L.totalAssets = 0
  THEN [num |-> 1, den |-> 1]
  ELSE [num |-> L.loadedAssets, den |-> L.totalAssets]

BatchReqs(L, b) == {r \in DOMAIN L.reqs : L.reqs[r].batch = b}

\* a batch that waits until every load delivered an asset
MutAllFulfilled(L, b) ==
  \A r \in BatchReqs(L, b) : L.reqs[r].result = "asset"

\* Promise.all(loadPromises) is fulfilled: every promise of the batch is
AllFulfilled(L, b) ==
  \A r \in BatchReqs(L, b) : L.reqs[r].st = "resolved"

\* Promise.all(loadPromises) of batch b has settled and the continuation of
\* preloadAssets has not run yet
FinishReady(L, b) ==
  /\ L.batches[b].st = "pending"
  /\ \/ \E r \in BatchReqs(L, b) : L.reqs[r].st = "rejected"
     \/ AllFulfilled(L, b)

\* a request for the path has not settled yet
InFlight(L, path) ==
  \E r \in DOMAIN L.reqs : L.reqs[r].path = path /\ L.reqs[r].st # "resolved"
                                                  /\ L.reqs[r].st # "rejected"

\* no promise continuation of the loader is waiting to run: the callbacks of
\* the decoders and of fetch are tasks, and a task starts only when the
\* continuations released by the task before it have run
Quiescent(L) == \A b \in DOMAIN L.batches : ~FinishReady(L, b)

(***************************************************************************)
(* Actions of the AssetManager.                                            *)
(***************************************************************************)
\* a direct loadModel(path)
LoadModelCall(path) ==
  /\ Len(loader.reqs) < MaxReqs
  /\ loader' = LoadModel(loader, path, FALSE, 0)
  /\ UNCHANGED <<bench, calc>>

\* a direct loadTexture(path)
LoadTextureCall(path) ==
  /\ Len(loader.reqs) < MaxReqs
  /\ loader' = LoadTexture(loader, path, FALSE, 0)
  /\ UNCHANGED <<bench, calc>>

\* preloadAssets(paths) up to `await Promise.all`
PreloadAssets(paths) ==
  /\ Len(loader.batches) < MaxBatches
  /\ Len(loader.reqs) + Len(paths) <= MaxReqs
  /\ LET b == Len(loader.batches) + 1
         L1 == IssueLoads(ResetBatch(loader, paths), paths, 1, b)
     IN loader' = [L1 EXCEPT !.batches =
                     Append(@, [paths |-> paths, st |-> "pending",
                                current |-> TRUE,
                                completes |->
                                  [p \in Range(paths) |-> L1.increments[p]]])]
  /\ UNCHANGED <<bench, calc>>

\* the HEAD request for the .mtl file answers (found, not found) or throws
MtlProbe(r, found) ==
  /\ Quiescent(loader)
  /\ r \in DOMAIN loader.reqs
  /\ loader.reqs[r].st = "probing"
  /\ LET path == loader.reqs[r].path IN
     loader' =
       IF found
       THEN [loader EXCEPT !.reqs[r].st = "mtl", !.reqs[r].hasMtl = TRUE]
       ELSE [StartDecode(loader, path) EXCEPT !.reqs[r].st = "decoding"]
  /\ UNCHANGED <<bench, calc>>

\* the MTL decode succeeds or fails; either way the OBJ decode starts
\* (hasMtl stays true when the MTL decode fails)
MtlLoad(r, ok) ==
  /\ Quiescent(loader)
  /\ r \in DOMAIN loader.reqs
  /\ loader.reqs[r].st = "mtl"
  /\ loader' = [StartDecode(loader, loader.reqs[r].path) EXCEPT
                  !.reqs[r].st = "decoding", !.reqs[r].mtlFailed = ~ok]
  /\ UNCHANGED <<bench, calc>>

\* the decoder's progress callback
DecodeProgress(r) ==
  /\ Quiescent(loader)
  /\ r \in DOMAIN loader.reqs
  /\ loader.reqs[r].st = "decoding"
  /\ loader' = NotifyProgress(loader,
                  [asset |-> loader.reqs[r].path, progress |-> 50,
                   loaded |-> 1, total |-> 2, isComplete |-> FALSE])
  /\ UNCHANGED <<bench, calc>>

\* the decoder's success callback: a model is normalized, cached as
\* model.clone() and the promise resolved with model; a texture is cached
\* and returned itself.  bare tells whether the OBJ decoder delivered a mesh
\* without material.
DecodeSuccess(r, bare) ==
  /\ Quiescent(loader)
  /\ r \in DOMAIN loader.reqs
  /\ loader.reqs[r].st = "decoding"
  /\ bare => ModelDecoder(loader.reqs[r].path) = "obj"
  /\ LET q == loader.reqs[r]
         object == [Decoded(r) EXCEPT !.bare = bare]
         model == IF ModelDecoder(q.path) = "obj"
                  THEN ApplyDefaultMaterial(Normalize(object), q.hasMtl)
                  ELSE Normalize(object)
         asset == IF q.kind = "model" THEN model ELSE object
         L1 == IF q.kind = "model"
               THEN [loader EXCEPT !.modelCache = @ \cup {q.path},
                                   !.cached[q.path] = Clone(model, r)]
               ELSE [loader EXCEPT !.textureCache = @ \cup {q.path},
                                   !.cached[q.path] = object]
         L2 == MarkComplete(L1, q.path, q.isPreload, TRUE)
     IN loader' = [L2 EXCEPT !.reqs[r].st = "resolved",
                             !.reqs[r].result = "asset",
                             !.reqs[r].obj = asset,
                             !.reqs[r].outcome = "success"]
  /\ UNCHANGED <<bench, calc>>

\* the decoder's error callback (the error, a network or a parse error, is
\* only logged), followed for a model by the try/catch of loadModel around
\* the awaited decode
DecodeError(r, error) ==
  /\ Quiescent(loader)
  /\ r \in DOMAIN loader.reqs
  /\ loader.reqs[r].st = "decoding"
  /\ LET q == loader.reqs[r]
         L1 == MarkComplete(loader, q.path, q.isPreload, FALSE)
         inner == ErrorCallbackSettles
     IN IF inner = "rejected" /\ q.kind = "model"
        THEN loader' = [MarkComplete(L1, q.path, q.isPreload, FALSE) EXCEPT
                          !.reqs[r].outcome = "failure",
                          !.reqs[r].st = "resolved",
                          !.reqs[r].result = "null"]
        ELSE loader' = [L1 EXCEPT
                          !.reqs[r].outcome = "failure",
                          !.reqs[r].st = inner,
                          !.reqs[r].result =
                             IF inner = "resolved" THEN "null" ELSE "none"]
  /\ UNCHANGED <<bench, calc>>

\* the continuation of preloadAssets after `await Promise.all(loadPromises)`
PreloadFinish(b) ==
  /\ b \in DOMAIN loader.batches
  /\ loader.batches[b].st = "pending"
  /\ IF \E r \in BatchReqs(loader, b) : loader.reqs[r].st = "rejected"
     THEN loader' = [loader EXCEPT !.batches[b].st = "rejected"]
     ELSE /\ AllFulfilled(loader, b)
          /\ loader' = [NotifyProgress(loader,
                          [asset |-> <<"all">>, progress |-> 100,
                           loaded |-> loader.totalAssets,
                           total |-> loader.totalAssets,
                           isComplete |-> TRUE])
                        EXCEPT !.batches[b].st = "resolved"]
  /\ UNCHANGED <<bench, calc>>

\* clearCache
ClearCache ==
  /\ loader' = [loader EXCEPT
                  !.cleared = {p \in loader.modelCache \cup loader.textureCache :
                                 InFlight(loader, p)},
                  !.modelCache = {},
                  !.textureCache = {},
                  !.cached = NoObjects,
                  !.loadedAssets = 0,
                  !.totalAssets = 0,
                  !.pendingLoads = <<>>,
                  !.increments = NoIncrements,
                  !.batches = [b \in DOMAIN @ |-> [@[b] EXCEPT !.current = FALSE]]]
  /\ UNCHANGED <<bench, calc>>

\* addLoadingListener: loadingListeners.push(listener)
AddLoadingListener(l) ==
  /\ Len(loader.loadingListeners) < MaxListeners
  /\ loader' = [loader EXCEPT !.loadingListeners = Append(@, l)]
  /\ UNCHANGED <<bench, calc>>

\* removeLoadingListener: loadingListeners.filter((l) => l !== listener)
RemoveLoadingListener(l) ==
  /\ loader' = [loader EXCEPT !.loadingListeners =
                  SelectSeq(@, LAMBDA x : x # l)]
  /\ UNCHANGED <<bench, calc>>

(***************************************************************************)
(* Claims about the AssetManager.                                          *)
(***************************************************************************)
Decoding(path) ==
  {r \in DOMAIN loader.reqs :
     loader.reqs[r].path = path /\ loader.reqs[r].st = "decoding"}

Failed(q) == q.outcome = "failure"

Terminal(q) == q.outcome # "none"

\* C1: loads of one uncached path issued while a decode of that path is in
\* flight are coalesced: at most one decode of a path is outstanding.
C1_AtMostOneDecode ==
  \A path \in Paths : Cardinality(Decoding(path)) <= 1

\* C3: a preloadAssets promise is never rejected, it is resolved only when
\* every path of the batch reached a terminal state, and once every path
\* did (cache hit, successful decode or failed decode) it can resolve.
C3_BatchCompletion ==
  \A b \in DOMAIN loader.batches :
    /\ loader.batches[b].st # "rejected"
    /\ loader.batches[b].st = "resolved" =>
         \A r \in BatchReqs(loader, b) : Terminal(loader.reqs[r])
    /\ ( /\ loader.batches[b].st = "pending"
         /\ \A r \in BatchReqs(loader, b) : Terminal(loader.reqs[r]) )
       => ENABLED PreloadFinish(b)

\* a batch resolved although one of its paths failed, another being a cache
\* hit
C3_Witness ==
  \E b \in DOMAIN loader.batches :
    /\ loader.batches[b].st = "resolved"
    /\ \E r \in BatchReqs(loader, b) : Failed(loader.reqs[r])
    /\ \E r \in BatchReqs(loader, b) : loader.reqs[r].outcome = "hit"

\* C4: since the counters were last reset, loadedAssets was incremented at
\* most once for any path, and exactly once for every path of a batch that
\* resolved without another reset.
C4_SingleIncrement ==
  /\ \A path \in Paths : loader.increments[path] <= 1
  /\ \A b \in DOMAIN loader.batches :
       (loader.batches[b].st = "resolved" /\ loader.batches[b].current) =>
         \A path \in Range(loader.batches[b].paths) :
           loader.increments[path] = 1

\* a batch naming one path twice resolved, both loads of the path having
\* completed
C4_Witness ==
  \E b \in DOMAIN loader.batches :
    /\ loader.batches[b].st = "resolved"
    /\ loader.batches[b].current
    /\ loader.batches[b].paths = <<PathGlb, PathGlb>>
    /\ loader.increments[PathGlb] = 1

\* C5: loadedAssets never exceeds totalAssets, and getOverallProgress() lies
\* between 0 and 1.
C5_LoadedAtMostTotal ==
  /\ loader.loadedAssets <= loader.totalAssets
  /\ LET progress == GetOverallProgress(loader)
     IN 0 <= progress.num /\ progress.num <= progress.den

\* C6: no promise of loadModel, loadTexture or preloadAssets is rejected; a
\* load whose decode failed (network or parse error) resolved with null.
C6_FailureResolvesNull ==
  /\ \A r \in DOMAIN loader.reqs :
       /\ loader.reqs[r].st # "rejected"
       /\ Failed(loader.reqs[r]) =>
            (loader.reqs[r].st = "resolved" /\ loader.reqs[r].result = "null")
  /\ \A b \in DOMAIN loader.batches : loader.batches[b].st # "rejected"

\* the decode of a model and the decode of a texture have failed
C6_Witness ==
  /\ \E r \in DOMAIN loader.reqs :
       loader.reqs[r].kind = "model" /\ Failed(loader.reqs[r])
  /\ \E r \in DOMAIN loader.reqs :
       loader.reqs[r].kind = "texture" /\ Failed(loader.reqs[r])

\* the requests a step has added
NewReqs == (DOMAIN loader'.reqs) \ (DOMAIN loader.reqs)

\* C11: a loadModel or loadTexture call for a path whose asset is stored in
\* the cache (decoded and stored, not cleared since) starts no decode of the
\* path and its promise is resolved, at once, with an asset (not null).
C11_CacheHit ==
  [][ \A r \in NewReqs :
        LET q == loader'.reqs[r]
            cache == IF q.kind = "model" THEN loader.modelCache
                     ELSE loader.textureCache
        IN q.path \in cache =>
             /\ q.st = "resolved"
             /\ q.result = "asset"
             /\ q.obj # NoObject
             /\ loader'.decodes[q.path] = loader.decodes[q.path] ]_vars

\* a model was decoded once and a later call for its path was served from
\* the cache
C11_Witness ==
  \E r \in DOMAIN loader.reqs :
    /\ loader.reqs[r].kind = "model"
    /\ loader.reqs[r].outcome = "hit"
    /\ loader.reqs[r].result = "asset"
    /\ loader.decodes[loader.reqs[r].path] = 1

C13_OneCompleteEvent ==
  \A b \in DOMAIN loader.batches :
    \A path \in Range(loader.batches[b].paths) :
      /\ loader.batches[b].completes[path] <= 1
      /\ loader.batches[b].st = "resolved" =>
           loader.batches[b].completes[path] = 1

\* C14: a step that emits a download-progress event (isComplete = false) for
\* a path is not taken after the completion event of that path was emitted
\* in a batch that is still pending.
C14_ProgressBeforeComplete ==
  [][ (loader'.lastEvent # loader.lastEvent /\ ~loader'.lastEvent.isComplete)
      => \A b \in DOMAIN loader.batches :
           ( /\ loader.batches[b].st = "pending"
             /\ loader'.lastEvent.asset \in Range(loader.batches[b].paths) )
           => loader.batches[b].completes[loader'.lastEvent.asset] = 0 ]_vars

\* C15: the step that resolves the promise of a batch is taken when every
\* load of the batch is terminal and emits the event 'all' with isComplete
\* and loaded = total = the number of paths the batch was called with.
C15_FinalEvent ==
  [][ \A b \in DOMAIN loader.batches :
        ( /\ loader.batches[b].st = "pending"
          /\ loader'.batches[b].st = "resolved" )
        => /\ \A r \in BatchReqs(loader, b) : Terminal(loader.reqs[r])
           /\ loader'.lastEvent =
                [asset |-> <<"all">>, progress |-> 100,
                 loaded |-> Len(loader.batches[b].paths),
                 total |-> Len(loader.batches[b].paths),
                 isComplete |-> TRUE] ]_vars

\* C16: the step in which a decode fails, for a load of a batch or a direct
\* load, resolves the promise with null and emits the terminal event of the
\* asset.
C16_FailureReported ==
  [][ \A r \in DOMAIN loader.reqs :
        (loader.reqs[r].st = "decoding" /\ Failed(loader'.reqs[r]))
        => /\ loader'.reqs[r].result = "null"
           /\ loader'.lastEvent =
                [asset |-> loader.reqs[r].path, progress |-> 100,
                 loaded |-> 0, total |-> 0, isComplete |-> TRUE] ]_vars

\* C22: a decoded model is normalized exactly once, before it is stored:
\* every entry of the model cache and every model a promise resolved with,
\* from a decode or from a cache hit, has been through the normalization
\* once, so that a cache hit adds no pass.
C22_NormalizedOnce ==
  /\ \A path \in loader.modelCache : loader.cached[path].passes = 1
  /\ \A r \in DOMAIN loader.reqs :
       (loader.reqs[r].kind = "model" /\ loader.reqs[r].result = "asset") =>
         loader.reqs[r].obj.passes = 1

\* a model was decoded and stored, and a later call was served from the
\* cache with a copy of it
C22_Witness ==
  \E r1, r2 \in DOMAIN loader.reqs :
    /\ loader.reqs[r1].kind = "model" /\ loader.reqs[r1].outcome = "success"
    /\ loader.reqs[r2].kind = "model" /\ loader.reqs[r2].outcome = "hit"
    /\ loader.reqs[r2].path = loader.reqs[r1].path
    /\ loader.reqs[r2].obj.site = "clone"
    /\ loader.reqs[r1].path \in loader.modelCache

\* C23: the model of an .obj path whose .mtl file is absent, or whose probe
\* failed, or whose MTL decode failed, is returned with a material on every
\* mesh.
C23_FallbackMaterial ==
  \A r \in DOMAIN loader.reqs :
    LET q == loader.reqs[r] IN
      (/\ ModelDecoder(q.path) = "obj"
       /\ q.outcome = "success"
       /\ ~q.hasMtl \/ q.mtlFailed) => ~q.obj.bare

\* C29: clearCache leaves both caches empty and the counters zero, with
\* getOverallProgress() = 1, and the first loadModel or loadTexture after it
\* for a path that was cached is not served from the cache (here for the
\* paths of `cleared`, a further request for which was under way; for any
\* other path nothing can fill the cache before the next call).
C29_ClearCache ==
  [][ /\ ClearCache =>
           /\ loader'.modelCache = {} /\ loader'.textureCache = {}
           /\ loader'.loadedAssets = 0 /\ loader'.totalAssets = 0
           /\ GetOverallProgress(loader') = [num |-> 1, den |-> 1]
      /\ \A r \in NewReqs :
           loader'.reqs[r].path \in loader.cleared =>
             loader'.reqs[r].outcome # "hit" ]_vars

\* every load of batch b reached a terminal state
AllTerminal(b) ==
  /\ b \in DOMAIN loader.batches
  /\ \A r \in BatchReqs(loader, b) : Terminal(loader.reqs[r])

\* C25: the promise of a batch is resolved, and its 'all' event emitted,
\* only when every decode of the batch has succeeded or failed, so a decode
\* that never ends keeps both from ever happening; and once every decode of
\* the batch has ended the promise is eventually resolved.
C25_NoTimeout ==
  /\ [](\A b \in DOMAIN loader.batches :
          loader.batches[b].st = "resolved" => AllTerminal(b))
  /\ [][ (loader'.lastEvent.asset = <<"all">>
           /\ loader'.lastEvent # loader.lastEvent) =>
            \E b \in DOMAIN loader.batches :
              /\ AllTerminal(b)
              /\ loader.batches[b].st = "pending"
              /\ loader'.batches[b].st = "resolved" ]_vars
  /\ \A b \in 1..MaxBatches :
       AllTerminal(b) ~>
         (b \in DOMAIN loader.batches /\ loader.batches[b].st = "resolved")

\* one batch has resolved after a failed decode while a decode of another
\* batch is still under way and keeps that batch pending
C25_Witness ==
  \E b1, b2 \in DOMAIN loader.batches :
    /\ loader.batches[b1].st = "resolved"
    /\ \E r \in BatchReqs(loader, b1) : Failed(loader.reqs[r])
    /\ loader.batches[b2].st = "pending"
    /\ \E r \in BatchReqs(loader, b2) : loader.reqs[r].st = "decoding"

\* every spelling of a texture extension, and of obj, among the paths
TextureSpellings ==
  {"jpg", "jpeg", "png", "webp", "bmp", "tga", "tif", "tiff", "exr", "hdr",
   "PNG", "Png", "JPG", "JPEG", "HDR"}

ObjSpellings == {"obj", "OBJ", "Obj"}

\* C24: preloadAssets hands a path to loadTexture if and only if its last
\* extension is, in any case, one of jpg, jpeg, png, webp, bmp, tga, tif,
\* tiff, exr, hdr, and to loadModel otherwise; loadModel uses the OBJ
\* decoder if and only if the last extension is obj in any case, and the
\* GLTF/GLB decoder otherwise.
C24_FormatDispatch ==
  LET last == calc.path[Len(calc.path)] IN
    /\ calc.preloaded =>
         /\ calc.target \in {"loadTexture", "loadModel"}
         /\ calc.target = "loadTexture" <=> last \in TextureSpellings
    /\ calc.loaded =>
         /\ calc.decoder \in {"obj", "gltf"}
         /\ calc.decoder = "obj" <=> last \in ObjSpellings

\* a.png.OBJ went to loadModel and to the OBJ decoder
C24_Witness ==
  /\ calc.path = <<"a", "png", "OBJ">>
  /\ calc.preloaded /\ calc.target = "loadModel"
  /\ calc.loaded /\ calc.decoder = "obj"

\* the registrations of listener l
Registrations(listeners, l) == Len(SelectSeq(listeners, LAMBDA x : x = l))

\* C27: whenever an event is emitted, every listener is called once for
\* each of its registrations at that moment: a listener that was added and
\* not removed since is called, one that was removed (or never added) is
\* not.
C27_ListenerDelivery ==
  [][ (loader'.lastEvent # loader.lastEvent
        \/ loader'.delivered # loader.delivered) =>
        \A l \in Listeners :
          loader'.delivered[l] = Registrations(loader.loadingListeners, l) ]_vars

\* the terminal event of a batch was delivered twice to a listener that is
\* registered twice and not at all to the other one
C27_Witness ==
  /\ loader.loadingListeners = <<"l1", "l1">>
  /\ loader.delivered = [l \in Listeners |-> IF l = "l1" THEN 2 ELSE 0]
  /\ loader.lastEvent.asset = <<"all">>

\* the step is a notification pass
Pass ==
  \/ loader'.lastEvent # loader.lastEvent
  \/ loader'.delivered # loader.delivered
  \/ \E r \in 1..MaxReqs : DecodeProgress(r)

\* the listeners registered at the start of the pass that add, and that
\* remove, listener m when called
Adders(m) ==
  {l \in Range(loader.loadingListeners) : loader.reaction[l] = <<"add", m>>}

Removers(m) ==
  {l \in Range(loader.loadingListeners) : loader.reaction[l] = <<"remove", m>>}

\* C37: a pass calls every listener once for each registration it had when
\* the pass started, whatever the listeners called add or remove during the
\* pass; the additions and removals are in the list after the pass: a
\* listener that was removed and not added is gone, one that was added (the
\* list having room, and no other listener being added) and not removed
\* has more registrations, one that was neither has as many as before.
C37_PassSnapshot ==
  [][ Pass =>
        \A m \in Listeners :
          /\ loader'.delivered[m] = Registrations(loader.loadingListeners, m)
          /\ (Removers(m) # {} /\ Adders(m) = {}) =>
               m \notin Range(loader'.loadingListeners)
          /\ (Adders(m) # {} /\ Removers(m) = {}
                /\ Len(loader.loadingListeners) < MaxListeners
                /\ \A l \in Range(loader.loadingListeners) :
                     loader.reaction[l][1] = "add" =>
                       loader.reaction[l][2] = m) =>
               Registrations(loader'.loadingListeners, m) >
                 Registrations(loader.loadingListeners, m)
          /\ (Adders(m) = {} /\ Removers(m) = {}) =>
               Registrations(loader'.loadingListeners, m) =
                 Registrations(loader.loadingListeners, m) ]_vars

\* a pass has called l1, which removed itself, and then l2, which added l1
\* again: both were called once, and l1 is now registered after l2
C37_Witness ==
  /\ loader.reaction =
       [l \in Listeners |->
          IF l = "l1" THEN <<"remove", "l1">> ELSE <<"add", "l1">>]
  /\ loader.delivered = [l \in Listeners |-> 1]
  /\ loader.loadingListeners = <<"l2", "l1">>

\* C34: when a batch has resolved and neither another batch nor clearCache
\* has reset the counters since, loadedAssets = totalAssets and
\* getOverallProgress() is 1, whatever the path list (duplicates included).
C34_CountersAtResolve ==
  \A b \in DOMAIN loader.batches :
    (loader.batches[b].st = "resolved" /\ loader.batches[b].current) =>
      /\ loader.loadedAssets = loader.totalAssets
      /\ LET progress == GetOverallProgress(loader)
         IN progress.num = progress.den

\* the step is the success callback of request r
Succeeds(r) ==
  /\ loader.reqs[r].st = "decoding"
  /\ loader'.reqs[r].outcome = "success"

\* C35: the success callback of a decode that was under way when clearCache
\* emptied the cache of its path does not put the path back into the cache,
\* and the success callback of a decode of an earlier batch, for a path the
\* newer batch does not name, does not increment loadedAssets.
C35_StaleDecode ==
  [][ \A r \in DOMAIN loader.reqs :
        Succeeds(r) =>
          LET q == loader.reqs[r] IN
            /\ q.path \in loader.cleared =>
                 q.path \notin loader'.modelCache \cup loader'.textureCache
            /\ \A b \in DOMAIN loader.batches :
                 (loader.batches[b].current /\ q.batch # b
                    /\ q.path \notin Range(loader.batches[b].paths)) =>
                   loader'.loadedAssets = loader.loadedAssets ]_vars

\* C36: a cache entry is always the work of a successful decode of its
\* path; the error callback of a decode leaves both caches as they are; a
\* call for a path that has failed before and is not in the cache starts a
\* new decode (a probe for the .mtl file first, for an OBJ model), and a
\* decode that succeeds resolves its call with the asset and caches it.
C36_FailureNotCached ==
  /\ [](\A path \in loader.modelCache \cup loader.textureCache :
          \E r \in DOMAIN loader.reqs :
            /\ loader.reqs[r].path = path
            /\ loader.reqs[r].outcome = "success")
  /\ [][ /\ \A r \in DOMAIN loader.reqs :
              (~Failed(loader.reqs[r]) /\ Failed(loader'.reqs[r])) =>
                /\ loader'.reqs[r].result = "null"
                /\ loader'.modelCache = loader.modelCache
                /\ loader'.textureCache = loader.textureCache
                /\ loader'.cached = loader.cached
         /\ \A r \in NewReqs :
              LET q == loader'.reqs[r] IN
                ((\E n \in DOMAIN loader.reqs :
                     loader.reqs[n].path = q.path /\ Failed(loader.reqs[n]))
                   /\ q.path \notin loader.modelCache \cup loader.textureCache)
                => /\ q.st \in {"decoding", "probing"}
                   /\ q.outcome = "none"
                   /\ loader'.decodes[q.path] = loader.decodes[q.path] +
                        Cardinality({n \in NewReqs :
                                       /\ loader'.reqs[n].path = q.path
                                       /\ loader'.reqs[n].st = "decoding"})
         /\ \A r \in DOMAIN loader.reqs :
              Succeeds(r) =>
                /\ loader'.reqs[r].st = "resolved"
                /\ loader'.reqs[r].result = "asset"
                /\ loader'.reqs[r].obj # NoObject
                /\ loader.reqs[r].path \in
                     loader'.modelCache \cup loader'.textureCache ]_vars

\* a call for a path resolved with null, and a later call for the same
\* path, decoded anew, resolved with the asset, which is now cached
C36_Witness ==
  \E r1, r2 \in DOMAIN loader.reqs :
    /\ r1 < r2
    /\ loader.reqs[r1].path = loader.reqs[r2].path
    /\ Failed(loader.reqs[r1]) /\ loader.reqs[r1].result = "null"
    /\ loader.reqs[r2].outcome = "success"
    /\ loader.reqs[r2].result = "asset"
    /\ loader.decodes[loader.reqs[r1].path] = 2
    /\ loader.reqs[r1].path \in loader.modelCache \cup loader.textureCache

(***************************************************************************)
(* PerformanceBenchmark.  The record `bench` holds the fields of the       *)
(* object (options, tests, currentTest, currentMetrics, frameCount,        *)
(* results, isRunning, startTime, stabilizing) and its environment:        *)
(*   now         performance.now(); only the ticks between the two reads   *)
(*               of the clock (startTime and checkStabilization) are kept  *)
(*   polls       calls of the metrics callback made so far                 *)
(*   pc          where the pending runAll call is suspended: "setup" and   *)
(*               "teardown" await the test's promise, "stabilizing" and    *)
(*               "collecting" wait for the next animation frame            *)
(*   i, totalTests   the local variables of runAll                         *)
(*   setupSt, teardownSt   the promises returned by the tests of the run   *)
(*   progress    the values handed to options.onProgress during the run    *)
(*   early       a call of runAll returned early during the current run    *)
(*   runs, externalCalls   calls of runAll that started a run, calls of    *)
(*               the public recordMetrics from outside the harness         *)
(* A sample carries, next to its metrics, the position `at` of the harness *)
(* at the moment it was recorded.                                          *)
(***************************************************************************)
MaxTests == 2       \* tests registered per behaviour
MaxFrames == 2      \* largest framesPerTest
MaxRuns == 2        \* runs started per behaviour
MaxExternal == 1    \* recordMetrics calls from outside per behaviour

MaxStabilization == 1   \* largest stabilizationTime

\* `this.frameCount % 10 === 0`
ProgressEvery == 10

NullTest == "null"

\* the names the registered tests are given, in registration order
TestNames == <<"T1", "T2", "T3", "T4">>
Undefined == 0 - 1

\* the fields of PerformanceMetrics: fps and frameTime are averaged as they
\* are, the counts are rounded, the two memory fields are optional
UnroundedFields == {"fps", "frameTime"}

RoundedFields ==
  {"triangles", "textures", "shaders", "calls", "geometries", "meshes",
   "lights"}

MemoryFields == {"memoryUsed", "memoryTotal"}

RequiredFields == UnroundedFields \cup RoundedFields

\* a reading of the monitor: k selects the values, hasMemory tells whether
\* the platform reports memory (the monitor sets both memory fields or none)
Sample(k, hasMemory) ==
  [fps |-> 10 * (k + 1), frameTime |-> 60 \div (k + 1),
   triangles |-> 100 + k, textures |-> k, shaders |-> 2 * k,
   calls |-> 3 * k + 1, geometries |-> 5 + k, meshes |-> 7 - k,
   lights |-> 1,
   memoryUsed |-> IF hasMemory THEN 50 + k ELSE Undefined,
   memoryTotal |-> IF hasMemory THEN 201 + 2 * k ELSE Undefined,
   at |-> "none"]

\* the value the metrics callback returns at its n-th call: the readings
\* differ from call to call, memory is reported by every other one
SampleAt(n) == Sample(n % 3, n % 2 = 0)

\* the values recordMetrics is called with from outside the harness
ExternalSamples ==
  { [fps |-> 1, frameTime |-> 1, triangles |-> 1, textures |-> 1,
     shaders |-> 1, calls |-> 1, geometries |-> 1, meshes |-> 1,
     lights |-> 1, memoryUsed |-> Undefined, memoryTotal |-> Undefined,
     at |-> "none"] }

NoPromises == [k \in 1..MaxTests |-> "none"]

BenchInitWith(framesPerTest, waitForStabilization, stabilizationTime) ==
  [ options        |-> [framesPerTest |-> framesPerTest,
                        waitForStabilization |-> waitForStabilization,
                        stabilizationTime |-> stabilizationTime],
    tests          |-> <<>>,
    currentTest    |-> NullTest,
    currentMetrics |-> <<>>,
    frameCount     |-> 0,
    results        |-> <<>>,
    isRunning      |-> FALSE,
    startTime      |-> 0,
    stabilizing    |-> FALSE,
    now            |-> 0,
    polls          |-> 0,
    pc             |-> "idle",
    i              |-> 0,
    totalTests     |-> 0,
    setupSt        |-> NoPromises,
    teardownSt     |-> NoPromises,
    progress       |-> <<>>,
    runs           |-> 0,
    early          |-> FALSE,
    externalCalls  |-> 0 ]

\* the defaults of the constructor, with a short sampling window
BenchInit == BenchInitWith(MaxFrames, TRUE, MaxStabilization)

\* options.onProgress({testName, testIndex, totalTests, status})
Report(B, testName, testIndex, status) ==
  [B EXCEPT !.progress =
     Append(@, [testName |-> testName, testIndex |-> testIndex,
                status |-> status])]

\* the test the loop of runAll is at
CurrentTest(B) == B.tests[B.i + 1]

ReportTest(B, status) == Report(B, CurrentTest(B).name, B.i, status)

\* Math.floor(n / d) in the place of Math.round
MutRound(n, d) == n \div d

\* Math.round(n / d) for n >= 0, d > 0
Round(n, d) == (2 * n + d) \div (2 * d)

\* the reduce of calculateAverages for one field: (acc ?? 0) + (curr ?? 0)
RECURSIVE SumOf(_, _)
SumOf(metrics, field) ==
  IF metrics = <<>> THEN 0
  ELSE LET v == Head(metrics)[field]
       IN (IF v = Undefined THEN 0 ELSE v) + SumOf(Tail(metrics), field)

\* a test for memory that asks every sample to report it
MutHasMemory(metrics) ==
  \A k \in 1..Len(metrics) : metrics[k].memoryUsed # Undefined

\* metrics.some((m) => m.memoryUsed !== undefined)
HasMemory(metrics) ==
  \E k \in 1..Len(metrics) : metrics[k].memoryUsed # Undefined

\* the result of calculateAverages for no sample; fps and frameTime, which
\* are not rounded, are kept as the fraction num/den
ZeroAverages ==
  [f \in RequiredFields |->
     IF f \in UnroundedFields THEN [num |-> 0, den |-> 1] ELSE 0]

\* calculateAverages: the memory fields belong to the result only when
\* hasMemory
CalculateAverages(metrics) ==
  IF Len(metrics) = 0
  THEN ZeroAverages
  ELSE LET count == Len(metrics)
           sum == [f \in RequiredFields \cup MemoryFields |->
                     SumOf(metrics, f)]
           fields == IF HasMemory(metrics)
                     THEN RequiredFields \cup MemoryFields
                     ELSE RequiredFields
       IN [f \in fields |->
             IF f \in UnroundedFields
             THEN [num |-> sum[f], den |-> count]
             ELSE Round(sum[f], count)]

\* a recordMetrics whose array is the one the last stored result holds: a
\* result stored without the copy, and a test that empties the array in
\* place of taking a new one
MutRecordMetrics(B, metrics) ==
  IF ~B.isRunning \/ B.currentTest = NullTest \/ B.stabilizing
  THEN B
  ELSE [B EXCEPT !.currentMetrics = Append(@, [metrics EXCEPT !.at = B.pc]),
                 !.frameCount = @ + 1,
                 !.results = [n \in DOMAIN @ |->
                    IF n = Len(@)
                    THEN [@[n] EXCEPT !.metrics =
                            Append(@, [metrics EXCEPT !.at = B.pc])]
                    ELSE @[n]]]

\* recordMetrics
RecordMetrics(B, metrics) ==
  IF ~B.isRunning \/ B.currentTest = NullTest \/ B.stabilizing
  THEN B
  ELSE [B EXCEPT !.currentMetrics = Append(@, [metrics EXCEPT !.at = B.pc]),
                 !.frameCount = @ + 1]

\* runTest up to `await test.setup()`
RunTestStart(B) ==
  LET B1 == [B EXCEPT !.currentTest = CurrentTest(B).name,
                      !.currentMetrics = <<>>,
                      !.frameCount = 0]
  IN [ReportTest(B1, <<"setup">>) EXCEPT
        !.setupSt[B.i + 1] = "pending", !.pc = "setup"]

\* the loop of runAll at its test `i < this.tests.length`, and its end
RunAllLoop(B) ==
  IF B.i < Len(B.tests)
  THEN RunTestStart(ReportTest(B, <<"starting">>))
  ELSE [Report(B, "All tests", B.totalTests, <<"completed">>) EXCEPT
          !.isRunning = FALSE, !.pc = "resolved"]

\* a rejection of the awaited promise leaves runTest and runAll
RejectRun(B) == [B EXCEPT !.pc = "rejected"]

\* runTest after the teardown: the result is stored, then runAll goes on
FinishTest(B) ==
  LET averages == CalculateAverages(B.currentMetrics)
      B1 == [B EXCEPT !.results =
               Append(@, [name |-> CurrentTest(B).name,
                          metrics |-> B.currentMetrics,
                          averages |-> averages])]
      B2 == [ReportTest(B1, <<"completed">>) EXCEPT !.currentTest = NullTest]
  IN RunAllLoop([B2 EXCEPT !.i = @ + 1])

\* a teardown that is called but not awaited
MutAwaitsTeardown == FALSE

\* `await test.teardown()`: runTest waits for the promise of the teardown
AwaitsTeardown == TRUE

\* runTest from the end of the collection to `await test.teardown()`
BeginTeardown(B) ==
  LET B1 == ReportTest([B EXCEPT !.pc = "teardown"], <<"teardown">>)
  IN IF CurrentTest(B).hasTeardown
     THEN LET B2 == [B1 EXCEPT !.teardownSt[B.i + 1] = "pending"]
          IN IF AwaitsTeardown THEN B2 ELSE FinishTest(B2)
     ELSE FinishTest(B1)

\* a collection that ends with its first frame
MutCollectFrame(B) == BeginTeardown(B)

\* collectFrame
CollectFrame(B) ==
  IF B.frameCount >= B.options.framesPerTest
  THEN BeginTeardown(B)
  ELSE LET metrics == SampleAt(B.polls)
           B1 == RecordMetrics([B EXCEPT !.polls = @ + 1], metrics)
       IN IF B1.frameCount % ProgressEvery = 0
          THEN ReportTest(B1, <<"collecting", B1.frameCount,
                                B.options.framesPerTest>>)
          ELSE B1

\* runTest from the report of "collecting" to the first collectFrame()
BeginCollect(B) ==
  CollectFrame(ReportTest([B EXCEPT !.pc = "collecting"], <<"collecting">>))

\* a runTest that never waits for stabilization
MutAfterSetup(B) == BeginCollect(B)

\* runTest after `await test.setup()`
AfterSetup(B) ==
  IF B.options.waitForStabilization
  THEN [ReportTest(B, <<"stabilizing">>) EXCEPT
          !.stabilizing = TRUE, !.startTime = B.now, !.pc = "stabilizing"]
  ELSE BeginCollect(B)

\* a runTest that swallows the rejection of the setup and stores a result
MutSetupSettled(B, ok) ==
  IF ok THEN AfterSetup(B) ELSE FinishTest(B)

\* the promise of test.setup() settles
SetupSettled(B, ok) ==
  IF ok THEN AfterSetup(B) ELSE RejectRun(B)

\* a runTest that swallows the rejection of the teardown and stores a result
MutTeardownSettled(B, ok) == FinishTest(B)

\* the promise of `await test.teardown()` settles: runTest goes on to store
\* the result, or the rejection leaves runTest and runAll
TeardownSettled(B, ok) ==
  IF ok THEN FinishTest(B) ELSE RejectRun(B)

\* checkStabilization
CheckStabilization(B) ==
  IF B.now - B.startTime >= B.options.stabilizationTime
  THEN BeginCollect([B EXCEPT !.stabilizing = FALSE])
  ELSE B

(***************************************************************************)
(* calculateAverages on its own.  The record `calc` holds a sequence of    *)
(* samples (metrics), whether calculateAverages was applied to it (done)   *)
(* and the value it returned (averages).                                   *)
(***************************************************************************)
MaxSamples == 3     \* longest sequence of samples averaged

SampleKinds == 0..2

\* the readings the sequences are made of
SampleInputs == {Sample(k, hasMemory) : k \in SampleKinds, hasMemory \in BOOLEAN}

SampleSeqs == UNION {[1..n -> SampleInputs] : n \in 0..MaxSamples}

CalcInit(metrics) ==
  [metrics |-> metrics, done |-> FALSE, averages |-> ZeroAverages]

\* this.calculateAverages(metrics)
Calculate ==
  /\ ~calc.done
  /\ calc' = [calc EXCEPT !.done = TRUE,
                          !.averages = CalculateAverages(calc.metrics)]
  /\ UNCHANGED <<loader, bench>>

(***************************************************************************)
(* The comparison of logResults and of createHtmlReport on their own.      *)
(* Here the record `calc` holds a results list (results), whether          *)
(* logResults printed it (logged) with the comparisons it printed          *)
(* (logRows), and whether createHtmlReport was called (built) with the     *)
(* rows of its comparison table (htmlRows).  A comparison is a function    *)
(* from the compared fields to numbers; a number is finite (num/den), or   *)
(* one of the values NaN and Infinity that a division by 0 gives.          *)
(***************************************************************************)
MaxCompared == 3    \* longest results list compared

\* the fields logResults compares, and those of the table of the report
LogFields == {"fps", "frameTime", "memoryUsed", "calls", "triangles"}

HtmlFields == {"fps", "frameTime", "memoryUsed", "calls"}

\* a comparison that divides every field the same way round
MutInverted(field) == FALSE

\* the fields whose change is baseline / current (lower is better); the
\* change of the others is current / baseline
Inverted(field) == field \in {"frameTime", "memoryUsed", "calls"}

\* the number an average is: fps and frameTime are kept as fractions
AsNumber(averages, field) ==
  IF field \in UnroundedFields THEN averages[field]
  ELSE [num |-> averages[field], den |-> 1]

\* ((x / y) - 1) * 100 for x, y >= 0 in floating point: 0 / 0 is NaN and
\* x / 0 is Infinity for x > 0
PercentChange(x, y) ==
  IF y.num = 0
  THEN [kind |-> IF x.num = 0 THEN "NaN" ELSE "Infinity", num |-> 0, den |-> 1]
  ELSE [kind |-> "finite",
        num |-> 100 * (x.num * y.den - y.num * x.den),
        den |-> x.den * y.num]

\* the body of the loop over i >= 1: memory is compared only if
\* current.memoryUsed !== undefined && baseline.memoryUsed !== undefined
Comparison(current, baseline, fields) ==
  LET compared == {f \in fields :
                     f = "memoryUsed" =>
                       f \in DOMAIN current /\ f \in DOMAIN baseline}
  IN [f \in compared |->
        IF Inverted(f)
        THEN PercentChange(AsNumber(baseline, f), AsNumber(current, f))
        ELSE PercentChange(AsNumber(current, f), AsNumber(baseline, f))]

\* `if (this.results.length > 1)`: results[i] against results[0] for i >= 1
Comparisons(results, fields) ==
  IF Len(results) > 1
  THEN [i \in 1..(Len(results) - 1) |->
          Comparison(results[i + 1].averages, results[1].averages, fields)]
  ELSE <<>>

\* the sample sequences of the compared results: none, or one reading
ComparedMetrics ==
  {<<>>} \cup {<<Sample(k, hasMemory)>> : k \in {2, 5}, hasMemory \in BOOLEAN}

\* the result runTest stores for the n-th test when it collected metrics
ResultOf(n, metrics) ==
  [name |-> TestNames[n], metrics |-> metrics,
   averages |-> CalculateAverages(metrics)]

ComparedResults ==
  UNION {{[n \in 1..len |-> ResultOf(n, ms[n])] :
            ms \in [1..len -> ComparedMetrics]} : len \in 0..MaxCompared}

CompareInit(results) ==
  [results |-> results, logged |-> FALSE, logRows |-> <<>>,
   built |-> FALSE, htmlRows |-> <<>>]

\* logResults()
LogResults ==
  /\ ~calc.logged
  /\ calc' = [calc EXCEPT !.logged = TRUE,
                          !.logRows = Comparisons(calc.results, LogFields)]
  /\ UNCHANGED <<loader, bench>>

\* createHtmlReport()
CreateHtmlReport ==
  /\ ~calc.built
  /\ calc' = [calc EXCEPT !.built = TRUE,
                          !.htmlRows = Comparisons(calc.results, HtmlFields)]
  /\ UNCHANGED <<loader, bench>>

\* a runAll without the guard
MutAlreadyRunning(B) == FALSE

\* `if (this.isRunning)` at the head of runAll
AlreadyRunning(B) == B.isRunning

\* a runAll that appends to the results of the run before
MutKeptResults(B) == B.results

\* `this.results = []`: what a new run keeps of the results list
KeptResults(B) == <<>>

(***************************************************************************)
(* Actions of the PerformanceBenchmark.                                    *)
(***************************************************************************)
\* addTest
AddTest(hasTeardown) ==
  /\ Len(bench.tests) < MaxTests
  /\ bench' = [bench EXCEPT !.tests =
                 Append(@, [name |-> TestNames[Len(bench.tests) + 1],
                            hasTeardown |-> hasTeardown])]
  /\ UNCHANGED <<loader, calc>>

\* runAll up to its first suspension; a call made while a run is in
\* progress returns this.results at once (early records that it happened)
RunAll ==
  /\ bench.runs < MaxRuns \/ bench.isRunning
  /\ IF AlreadyRunning(bench)
     THEN bench' = [bench EXCEPT !.early = TRUE]
     ELSE bench' = RunAllLoop([bench EXCEPT
                     !.isRunning = TRUE,
                     !.results = KeptResults(bench),
                     !.totalTests = Len(bench.tests),
                     !.i = 0,
                     !.setupSt = NoPromises,
                     !.teardownSt = NoPromises,
                     !.progress = <<>>,
                     !.early = FALSE,
                     !.runs = @ + 1])
  /\ UNCHANGED <<loader, calc>>

\* the promise of the current test's setup resolves or rejects
SetupSettle(ok) ==
  /\ bench.pc = "setup"
  /\ bench' = SetupSettled(
                [bench EXCEPT !.setupSt[bench.i + 1] =
                   IF ok THEN "resolved" ELSE "rejected"],
                ok)
  /\ UNCHANGED <<loader, calc>>

\* an animation frame: the callback given to requestAnimationFrame runs
Frame ==
  /\ bench.pc \in {"stabilizing", "collecting"}
  /\ bench' = IF bench.pc = "stabilizing"
              THEN CheckStabilization(bench)
              ELSE CollectFrame(bench)
  /\ UNCHANGED <<loader, calc>>

\* the promise of the teardown of test k resolves or rejects
TeardownSettle(k, ok) ==
  /\ k \in 1..MaxTests
  /\ bench.teardownSt[k] = "pending"
  /\ LET B1 == [bench EXCEPT !.teardownSt[k] =
                  IF ok THEN "resolved" ELSE "rejected"]
     IN bench' = IF bench.pc = "teardown" /\ bench.i + 1 = k
                 THEN TeardownSettled(B1, ok)
                 ELSE B1
  /\ UNCHANGED <<loader, calc>>

\* a call of the public recordMetrics from outside the harness
RecordMetricsCall(metrics) ==
  /\ bench.externalCalls < MaxExternal
  /\ bench' = [RecordMetrics(bench, metrics) EXCEPT !.externalCalls = @ + 1]
  /\ UNCHANGED <<loader, calc>>

\* time passes between `this.startTime = performance.now()` and a later
\* checkStabilization, up to the moment the stabilization time has passed
AdvanceTime ==
  /\ bench.stabilizing
  /\ bench.now - bench.startTime < bench.options.stabilizationTime
  /\ bench' = [bench EXCEPT !.now = @ + 1]
  /\ UNCHANGED <<loader, calc>>

(***************************************************************************)
(* Claims about the PerformanceBenchmark.                                  *)
(***************************************************************************)
\* C2: when the setup of a test has begun, every test registered before it
\* has its setup resolved, its teardown (if it has one) resolved and its
\* result stored, in registration order.
C2_SequentialIsolation ==
  \A k \in 1..MaxTests :
    bench.setupSt[k] # "none" =>
      \A j \in 1..(k - 1) :
        /\ bench.setupSt[j] = "resolved"
        /\ bench.tests[j].hasTeardown => bench.teardownSt[j] = "resolved"
        /\ bench.teardownSt[j] \in {"none", "resolved"}
        /\ Len(bench.results) >= j
        /\ bench.results[j].name = bench.tests[j].name

\* the setup of the second test is running after the teardown of the first
C2_Witness ==
  /\ bench.setupSt[2] = "pending"
  /\ bench.tests[1].hasTeardown
  /\ bench.teardownSt[1] = "resolved"

SamplesOf(result) == {result.metrics[n] : n \in 1..Len(result.metrics)}

\* C7: a step taken while the harness is stabilizing leaves currentMetrics
\* and frameCount unchanged, and no stored result of a benchmark that waits
\* for stabilization holds a sample recorded before the collection began
\* (during the setup or the stabilization).
C7_StabilizationDiscard ==
  [][ /\ (bench.stabilizing /\ bench'.stabilizing) =>
           /\ bench'.currentMetrics = bench.currentMetrics
           /\ bench'.frameCount = bench.frameCount
      /\ bench.options.waitForStabilization =>
           \A n \in 1..Len(bench'.results) :
             \A sample \in SamplesOf(bench'.results[n]) :
               sample.at \notin {"setup", "stabilizing"} ]_vars

\* C8: every stored result holds exactly framesPerTest samples.
C8_ExactlyFramesPerTest ==
  \A n \in 1..Len(bench.results) :
    Len(bench.results[n].metrics) = bench.options.framesPerTest

\* C9: once the setup of test k was rejected, the run is rejected at test k,
\* the results are those of the tests before k, and no later test had its
\* setup or teardown called or became the current test.
C9_SetupFailure ==
  \A k \in 1..MaxTests :
    bench.setupSt[k] = "rejected" =>
      /\ bench.pc = "rejected"
      /\ bench.i = k - 1
      /\ bench.currentTest = bench.tests[k].name
      /\ Len(bench.results) = k - 1
      /\ \A j \in 1..(k - 1) : bench.results[j].name = bench.tests[j].name
      /\ \A j \in k..MaxTests : bench.teardownSt[j] = "none"
      /\ \A j \in (k + 1)..MaxTests : bench.setupSt[j] = "none"

\* the setup of the second test was rejected after the first test completed
C9_Witness ==
  /\ bench.setupSt[2] = "rejected"
  /\ Len(bench.results) = 1

IsPrefix(s, t) ==
  /\ Len(s) <= Len(t)
  /\ \A n \in 1..Len(s) : s[n] = t[n]

\* the phases of one test, as reported to onProgress by runTest
ExpectedPhases ==
  IF bench.options.waitForStabilization
  THEN <<"setup", "stabilizing", "collecting", "teardown", "completed">>
  ELSE <<"setup", "collecting", "teardown", "completed">>

IsPhaseReport(e, name) == e.testName = name /\ Len(e.status) = 1 /\ e.status[1] # "starting"

RECURSIVE PhasesOf(_, _)
PhasesOf(progress, name) ==
  IF progress = <<>> THEN <<>>
  ELSE IF IsPhaseReport(Head(progress), name)
  THEN <<Head(progress).status[1]>> \o PhasesOf(Tail(progress), name)
  ELSE PhasesOf(Tail(progress), name)

\* C10: the phases reported for a test are an initial part of setup,
\* stabilizing (only when waitForStabilization), collecting, teardown,
\* completed; they are all of them once the result of the test is stored;
\* and the harness is suspended in the phase it reported last.
C10_PhaseOrder ==
  \A k \in 1..Len(bench.tests) :
    LET phases == PhasesOf(bench.progress, bench.tests[k].name) IN
      /\ IsPrefix(phases, ExpectedPhases)
      /\ phases = ExpectedPhases <=> k <= Len(bench.results)
      /\ ( /\ bench.i + 1 = k
           /\ bench.pc \in {"setup", "stabilizing", "collecting", "teardown"} )
         => (phases # <<>> /\ phases[Len(phases)] = bench.pc)

\* a test that stabilized has completed
C10_Witness ==
  /\ bench.options.waitForStabilization
  /\ bench.options.framesPerTest > 0
  /\ Len(bench.results) >= 1
  /\ PhasesOf(bench.progress, "T1") = ExpectedPhases

\* C17: the sampler is called once by every stabilization poll (its value
\* is not recorded) and once by every collection tick: the step that ends
\* the stabilization, which runs the last poll and the first collectFrame,
\* calls it once for the poll and once more if it records a sample.
C17_SamplerPerTick ==
  [][ (bench.stabilizing /\ ~bench'.stabilizing) =>
        bench'.polls >=
          bench.polls + 1 + (IF bench'.pc = "collecting" THEN 1 ELSE 0) ]_vars

\* C18: with framesPerTest = 0 the sampler is never called, and every stored
\* result belongs to a test whose setup and teardown resolved, holds no
\* sample and has the averages of calculateAverages for no sample, all 0.
C18_ZeroSamples ==
  bench.options.framesPerTest = 0 =>
    /\ bench.polls = 0
    /\ \A n \in 1..Len(bench.results) :
         /\ bench.setupSt[n] = "resolved"
         /\ bench.tests[n].hasTeardown => bench.teardownSt[n] = "resolved"
         /\ bench.results[n].metrics = <<>>
         /\ bench.results[n].averages = ZeroAverages
         /\ \A f \in RoundedFields : bench.results[n].averages[f] = 0
         /\ \A f \in UnroundedFields : bench.results[n].averages[f].num = 0

\* the sum of a field over the first n samples, a missing value counting 0
RECURSIVE Total(_, _, _)
Total(metrics, field, n) ==
  IF n = 0 THEN 0
  ELSE Total(metrics, field, n - 1)
       + (IF metrics[n][field] = Undefined THEN 0 ELSE metrics[n][field])

\* r is total/count rounded to the nearest integer, a half upwards
IsNearest(r, total, count) ==
  LET d == 2 * (total - r * count) IN 0 - count <= d /\ d < count

FieldValues(metrics, field) == [n \in 1..Len(metrics) |-> metrics[n][field]]

\* C19: the averages of a non-empty sequence of samples are, for fps and
\* frameTime, the mean of the field (not rounded) and, for the seven counts,
\* the mean rounded to the nearest integer; fps 10, 20, 30 gives 20 and
\* triangles 100, 101, 102 gives 101.
C19_AveragesCorrect ==
  (calc.done /\ calc.metrics # <<>>) =>
    LET count == Len(calc.metrics) IN
      /\ RequiredFields \subseteq DOMAIN calc.averages
      /\ \A f \in UnroundedFields :
           calc.averages[f].num * count =
             Total(calc.metrics, f, count) * calc.averages[f].den
      /\ \A f \in RoundedFields :
           IsNearest(calc.averages[f], Total(calc.metrics, f, count), count)
      /\ FieldValues(calc.metrics, "fps") = <<10, 20, 30>> =>
           calc.averages.fps.num = 20 * calc.averages.fps.den
      /\ FieldValues(calc.metrics, "triangles") = <<100, 101, 102>> =>
           calc.averages.triangles = 101

\* the averages of samples with fps 10, 20, 30 and triangles 100, 101, 102
\* have been calculated
C19_Witness ==
  /\ calc.done
  /\ FieldValues(calc.metrics, "fps") = <<10, 20, 30>>
  /\ FieldValues(calc.metrics, "triangles") = <<100, 101, 102>>

\* a sample that reports memory
ReportsMemory(sample) ==
  sample.memoryUsed # Undefined \/ sample.memoryTotal # Undefined

\* C20: the averages have the two memory fields if and only if some sample
\* of the sequence reports memory, and then each is the sum of the field
\* over all samples (0 for a sample without memory) divided by the number
\* of samples, rounded.
C20_MemoryFields ==
  calc.done =>
    LET count == Len(calc.metrics)
        reported == \E n \in 1..count : ReportsMemory(calc.metrics[n])
    IN /\ reported <=> MemoryFields \subseteq DOMAIN calc.averages
       /\ ~reported <=> MemoryFields \cap DOMAIN calc.averages = {}
       /\ \A f \in MemoryFields \cap DOMAIN calc.averages :
            IsNearest(calc.averages[f], Total(calc.metrics, f, count), count)

\* the averages of a sequence in which one sample reports memory and another
\* does not have been calculated
C20_Witness ==
  /\ calc.done
  /\ \E n \in 1..Len(calc.metrics) : ReportsMemory(calc.metrics[n])
  /\ \E n \in 1..Len(calc.metrics) : ~ReportsMemory(calc.metrics[n])
  /\ MemoryFields \subseteq DOMAIN calc.averages

\* C26: the collection of a test ends, and its result is stored, only in a
\* frame callback, so nothing happens to it while no frame is rendered, and
\* no stored result has fewer samples than framesPerTest; and when frames
\* keep coming and the promises of setup and teardown settle, a run that is
\* in progress ends: it resolves unless a setup or a teardown rejected.
C26_NotTimeBoxed ==
  /\ [](\A n \in 1..Len(bench.results) :
          Len(bench.results[n].metrics) >= bench.options.framesPerTest)
  /\ [][ (bench.pc = "collecting"
           /\ (bench'.pc # "collecting" \/ bench'.results # bench.results))
         => Frame ]_vars
  /\ bench.isRunning ~> (~bench.isRunning \/ bench.pc = "rejected")

\* a run has resolved after collecting MaxFrames samples for each of two
\* tests, the first with a teardown
C26_Witness ==
  /\ bench.pc = "resolved" /\ ~bench.isRunning
  /\ bench.options.framesPerTest = MaxFrames
  /\ Len(bench.results) = 2
  /\ \A n \in 1..2 : Len(bench.results[n].metrics) = MaxFrames
  /\ bench.tests[1].hasTeardown

\* the step is the end of a run: runAll resolves
RunResolves ==
  /\ bench'.pc = "resolved"
  /\ bench.isRunning \/ bench'.runs # bench.runs

\* C28: when runAll resolves, the results list has one result for every
\* registered test, in the order of registration, with the name of the
\* test, the samples recorded for it (for the last test: all of
\* currentMetrics) and the averages of these samples; and a step that
\* starts a run leaves no result of the run before.
C28_ResultsPerTest ==
  [][ /\ RunResolves =>
           /\ Len(bench'.results) = Len(bench'.tests)
           /\ \A n \in 1..Len(bench'.results) :
                LET result == bench'.results[n] IN
                  /\ result.name = bench'.tests[n].name
                  /\ result.averages = CalculateAverages(result.metrics)
           /\ bench'.results # <<>> =>
                bench'.results[Len(bench'.results)].metrics =
                  bench'.currentMetrics
      /\ bench'.runs # bench.runs => bench'.results = <<>> ]_vars

\* a second run has resolved with the results of two tests
C28_Witness ==
  /\ bench.runs = 2 /\ bench.pc = "resolved"
  /\ Len(bench.tests) = 2 /\ Len(bench.results) = 2
  /\ bench.results[1].name = "T1" /\ bench.results[2].name = "T2"
  /\ bench.results[2].metrics # <<>>

\* the tests whose setup was called and whose result is not stored
TestsInProgress ==
  {k \in 1..MaxTests : bench.setupSt[k] # "none" /\ k > Len(bench.results)}

\* C30: while a run is in progress no step starts another run, resets the
\* results list or moves the loop backwards, a call of runAll made then
\* changes nothing of the harness, and at no time are two tests in
\* progress.
C30_Reentrancy ==
  /\ [](Cardinality(TestsInProgress) <= 1)
  /\ [][ /\ bench.isRunning =>
              /\ bench'.runs = bench.runs
              /\ IsPrefix(bench.results, bench'.results)
              /\ bench'.i >= bench.i
         /\ (bench.isRunning /\ ~bench.early /\ bench'.early) =>
              bench' = [bench EXCEPT !.early = TRUE] ]_vars

\* runAll was called during a run that went on to store the results of two
\* tests and to resolve
C30_Witness ==
  /\ bench.early
  /\ bench.pc = "resolved"
  /\ Len(bench.results) = 2

\* C31: once runAll has settled (resolved, or rejected by a setup or a
\* teardown) the harness is idle: isRunning is false, currentTest is null
\* and stabilizing is false.
C31_IdleAfterSettle ==
  bench.pc \in {"resolved", "rejected"} =>
    /\ ~bench.isRunning
    /\ bench.currentTest = NullTest
    /\ ~bench.stabilizing

\* C32: once the teardown of test k was rejected, the run is rejected at
\* test k, the results are those of the tests before k (none for k), and no
\* later test had its setup called.
C32_TeardownFailure ==
  \A k \in 1..MaxTests :
    bench.teardownSt[k] = "rejected" =>
      /\ bench.pc = "rejected"
      /\ bench.i = k - 1
      /\ Len(bench.results) = k - 1
      /\ \A n \in 1..Len(bench.results) :
           bench.results[n].name # bench.tests[k].name
      /\ \A j \in (k + 1)..MaxTests : bench.setupSt[j] = "none"

\* the teardown of the first of two tests was rejected after the test had
\* collected its samples
C32_Witness ==
  /\ Len(bench.tests) = 2
  /\ bench.teardownSt[1] = "rejected"
  /\ bench.pc = "rejected"
  /\ bench.options.framesPerTest > 0
  /\ Len(bench.currentMetrics) = bench.options.framesPerTest

\* C33: a call of recordMetrics from outside the harness made in any phase
\* but the collecting phase (setup, stabilizing, teardown, no run) leaves
\* currentMetrics and frameCount unchanged.
C33_OnlyWhileCollecting ==
  [][ (bench'.externalCalls # bench.externalCalls
         /\ bench.pc # "collecting") =>
        /\ bench'.currentMetrics = bench.currentMetrics
        /\ bench'.frameCount = bench.frameCount ]_vars

\* C38: within a run a stored result is never changed or removed by a later
\* step, and a step that records a sample extends currentMetrics, the
\* sequence of the test in progress, and leaves the results list as it is.
C38_StoredResultsFixed ==
  [][ /\ bench'.runs = bench.runs =>
           /\ Len(bench'.results) >= Len(bench.results)
           /\ \A n \in 1..Len(bench.results) :
                bench'.results[n] = bench.results[n]
      /\ bench'.frameCount > bench.frameCount =>
           /\ bench'.results = bench.results
           /\ IsPrefix(bench.currentMetrics, bench'.currentMetrics)
           /\ bench'.currentTest = bench.currentTest ]_vars

\* the second test has recorded a sample after the result of the first,
\* which holds samples, was stored
C38_Witness ==
  /\ Len(bench.results) = 1
  /\ bench.results[1].metrics # <<>>
  /\ bench.currentTest = "T2"
  /\ bench.currentMetrics # <<>>

\* the change d is ((x / y) - 1) * 100, for a divisor y that is not 0
IsChange(d, x, y) ==
  y.num # 0 =>
    /\ d.kind = "finite"
    /\ d.den # 0
    /\ d.num * (x.den * y.num) = 100 * (x.num * y.den - y.num * x.den) * d.den

\* the rows are the comparison of every result after the first with the
\* first, over the given fields
IsComparison(rows, results, fields) ==
  /\ Len(rows) = (IF Len(results) > 1 THEN Len(results) - 1 ELSE 0)
  /\ \A i \in 1..Len(rows) :
       LET current == results[i + 1].averages
           baseline == results[1].averages
           both == "memoryUsed" \in DOMAIN current
                   /\ "memoryUsed" \in DOMAIN baseline
       IN /\ DOMAIN rows[i] =
               (IF both THEN fields ELSE fields \ {"memoryUsed"})
          /\ \A f \in DOMAIN rows[i] \cap {"fps", "triangles"} :
               IsChange(rows[i][f], AsNumber(current, f), AsNumber(baseline, f))
          /\ \A f \in DOMAIN rows[i] \cap {"frameTime", "calls", "memoryUsed"} :
               IsChange(rows[i][f], AsNumber(baseline, f), AsNumber(current, f))
          /\ (baseline.fps = [num |-> 30, den |-> 1]
                /\ current.fps = [num |-> 60, den |-> 1]) =>
               rows[i].fps.num = 100 * rows[i].fps.den
          /\ (baseline.frameTime = [num |-> 20, den |-> 1]
                /\ current.frameTime = [num |-> 10, den |-> 1]) =>
               rows[i].frameTime.num = 100 * rows[i].frameTime.den

\* C21: with two or more results, logResults and createHtmlReport compare
\* every result after the first with the averages of the first: the change
\* of fps and of triangles is (current / baseline - 1) * 100, the change of
\* frameTime, calls and memory is (baseline / current - 1) * 100, memory
\* being compared only when both averages have it; 30 to 60 fps gives +100
\* and 20 ms to 10 ms gives +100.  (The table of createHtmlReport has no
\* column for triangles.)
C21_Comparison ==
  /\ calc.logged => IsComparison(calc.logRows, calc.results, LogFields)
  /\ calc.built => IsComparison(calc.htmlRows, calc.results, HtmlFields)

\* both reports were made of three results whose second doubles the fps and
\* halves the frame time of the first, with memory compared in one row and
\* not in another
C21_Witness ==
  /\ calc.logged /\ calc.built
  /\ Len(calc.results) >= 3
  /\ calc.results[1].averages.fps = [num |-> 30, den |-> 1]
  /\ calc.results[2].averages.fps = [num |-> 60, den |-> 1]
  /\ calc.results[1].averages.frameTime = [num |-> 20, den |-> 1]
  /\ calc.results[2].averages.frameTime = [num |-> 10, den |-> 1]
  /\ calc.logRows[1].fps = [kind |-> "finite", num |-> 3000, den |-> 30]
  /\ "memoryUsed" \in DOMAIN calc.logRows[1]
  /\ "memoryUsed" \notin DOMAIN calc.htmlRows[2]
  /\ "triangles" \in DOMAIN calc.logRows[2]

Init ==
  /\ loader = LoaderInit
  /\ bench = BenchInit
  /\ calc = CalcInit(<<>>)

NextLoader ==
  \/ \E path \in DirectModelPaths : LoadModelCall(path)
  \/ \E path \in DirectTexturePaths : LoadTextureCall(path)
  \/ \E paths \in BatchInputs : PreloadAssets(paths)
  \/ \E r \in 1..MaxReqs, found \in BOOLEAN : MtlProbe(r, found)
  \/ \E r \in 1..MaxReqs, ok \in BOOLEAN : MtlLoad(r, ok)
  \/ \E r \in 1..MaxReqs : DecodeProgress(r)
  \/ \E r \in 1..MaxReqs, bare \in BOOLEAN : DecodeSuccess(r, bare)
  \/ \E r \in 1..MaxReqs, error \in {"network", "parse"} : DecodeError(r, error)
  \/ \E b \in 1..MaxBatches : PreloadFinish(b)
  \/ ClearCache

SpecLoader == Init /\ [][NextLoader]_vars

\* the continuation of `await Promise.all(loadPromises)` is a job of the
\* promise queue, which the event loop runs once the promise has settled
NextBatches ==
  \/ \E paths \in BatchInputs : PreloadAssets(paths)
  \/ \E r \in 1..MaxReqs, found \in BOOLEAN : MtlProbe(r, found)
  \/ \E r \in 1..MaxReqs, ok \in BOOLEAN : MtlLoad(r, ok)
  \/ \E r \in 1..MaxReqs, bare \in BOOLEAN : DecodeSuccess(r, bare)
  \/ \E r \in 1..MaxReqs, error \in {"network", "parse"} : DecodeError(r, error)
  \/ \E b \in 1..MaxBatches : PreloadFinish(b)

\* batches whose decodes end, or never do (no fairness for the decoders)
SpecBatchesFair ==
  /\ Init
  /\ [][NextBatches]_vars
  /\ \A b \in 1..MaxBatches : WF_vars(PreloadFinish(b))

\* loads and batches whose decodes succeed or fail, with calls repeated for
\* the paths that failed
NextRetry ==
  \/ \E path \in DirectModelPaths : LoadModelCall(path)
  \/ \E path \in DirectTexturePaths : LoadTextureCall(path)
  \/ \E paths \in BatchInputs : PreloadAssets(paths)
  \/ \E r \in 1..MaxReqs, found \in BOOLEAN : MtlProbe(r, found)
  \/ \E r \in 1..MaxReqs, ok \in BOOLEAN : MtlLoad(r, ok)
  \/ \E r \in 1..MaxReqs, bare \in BOOLEAN : DecodeSuccess(r, bare)
  \/ \E r \in 1..MaxReqs, error \in {"network", "parse"} : DecodeError(r, error)
  \/ \E b \in 1..MaxBatches : PreloadFinish(b)
  \/ ClearCache

SpecRetry == Init /\ [][NextRetry]_vars

\* batches observed by listeners that come and go (decodes that succeed)
NextListeners ==
  \/ \E l \in Listeners : AddLoadingListener(l)
  \/ \E l \in Listeners : RemoveLoadingListener(l)
  \/ \E paths \in BatchInputs : PreloadAssets(paths)
  \/ \E r \in 1..MaxReqs : DecodeProgress(r)
  \/ \E r \in 1..MaxReqs, bare \in BOOLEAN : DecodeSuccess(r, bare)
  \/ \E b \in 1..MaxBatches : PreloadFinish(b)

SpecListeners == Init /\ [][NextListeners]_vars

\* listeners of any behaviour
InitPasses ==
  /\ \E reaction \in [Listeners -> Reactions] :
       loader = [LoaderInit EXCEPT !.reaction = reaction]
  /\ bench = BenchInit
  /\ calc = CalcInit(<<>>)

\* events of texture loads, emitted to listeners that change the listener
\* list when they are called
NextPasses ==
  \/ \E l \in Listeners : AddLoadingListener(l)
  \/ \E l \in Listeners : RemoveLoadingListener(l)
  \/ \E path \in DirectTexturePaths : LoadTextureCall(path)
  \/ \E r \in 1..MaxReqs : DecodeProgress(r)
  \/ \E r \in 1..MaxReqs : DecodeSuccess(r, FALSE)

SpecPasses == InitPasses /\ [][NextPasses]_vars

\* a benchmark constructed with any options
InitBench ==
  /\ loader = LoaderInit
  /\ calc = CalcInit(<<>>)
  /\ \E framesPerTest \in 0..MaxFrames, waitForStabilization \in BOOLEAN,
        stabilizationTime \in 0..MaxStabilization :
       bench = BenchInitWith(framesPerTest, waitForStabilization,
                             stabilizationTime)

\* one run, started by a caller that waits for its end
NextBench ==
  \/ \E hasTeardown \in BOOLEAN : AddTest(hasTeardown)
  \/ bench.runs = 0 /\ RunAll
  \/ \E ok \in BOOLEAN : SetupSettle(ok)
  \/ Frame
  \/ \E k \in 1..MaxTests, ok \in BOOLEAN : TeardownSettle(k, ok)
  \/ \E metrics \in ExternalSamples : RecordMetricsCall(metrics)
  \/ AdvanceTime

SpecBench == InitBench /\ [][NextBench]_vars

\* runs that follow each other, with callers that call runAll at any time
NextRuns ==
  \/ \E hasTeardown \in BOOLEAN : AddTest(hasTeardown)
  \/ RunAll
  \/ \E ok \in BOOLEAN : SetupSettle(ok)
  \/ Frame
  \/ \E k \in 1..MaxTests, ok \in BOOLEAN : TeardownSettle(k, ok)
  \/ AdvanceTime

SpecRuns == InitBench /\ [][NextRuns]_vars

\* one run with nothing but the harness recording samples
NextFrames ==
  \/ \E hasTeardown \in BOOLEAN : AddTest(hasTeardown)
  \/ bench.runs = 0 /\ RunAll
  \/ \E ok \in BOOLEAN : SetupSettle(ok)
  \/ Frame
  \/ \E k \in 1..MaxTests, ok \in BOOLEAN : TeardownSettle(k, ok)
  \/ AdvanceTime

\* the browser keeps rendering frames and its clock advances; the promise
\* of a setup and of a teardown settles
SpecFramesFair ==
  /\ InitBench
  /\ [][NextFrames]_vars
  /\ WF_vars(Frame)
  /\ WF_vars(AdvanceTime)
  /\ WF_vars(\E ok \in BOOLEAN : SetupSettle(ok))
  /\ WF_vars(\E k \in 1..MaxTests, ok \in BOOLEAN : TeardownSettle(k, ok))

\* the dispatch of any path
InitDispatch ==
  /\ loader = LoaderInit
  /\ bench = BenchInit
  /\ \E path \in DispatchPaths : calc = DispatchInit(path)

NextDispatch ==
  \/ DispatchPreload
  \/ DispatchLoadModel

SpecDispatch == InitDispatch /\ [][NextDispatch]_vars

\* calculateAverages applied to any sequence of samples
InitAverages ==
  /\ loader = LoaderInit
  /\ bench = BenchInit
  /\ \E metrics \in SampleSeqs : calc = CalcInit(metrics)

NextAverages == Calculate

SpecAverages == InitAverages /\ [][NextAverages]_vars

\* the two reports made of any results list
InitCompare ==
  /\ loader = LoaderInit
  /\ bench = BenchInit
  /\ \E results \in ComparedResults : calc = CompareInit(results)

NextCompare ==
  \/ LogResults
  \/ CreateHtmlReport

SpecCompare == InitCompare /\ [][NextCompare]_vars

====
